---- MODULE Spec2Model ----
(***************************************************************************)
(* Producer/consumer buffers of InfiniteBuffer.cpp (unbounded linked chain)*)
(* and FiniteBuffer.cpp (bounded circular list), with the TicketLock both  *)
(* use for their producers.                                                *)
(*                                                                         *)
(* A step of the model is one access of a thread to state that another     *)
(* thread can see at that moment: a lock operation, a read or write of     *)
(* Node::filled, a notify.  Statements that touch only the thread's own    *)
(* locals, or fields no other thread can reach at that point, are folded   *)
(* into a neighbouring step, and two releases in a row make one step.      *)
(* Interleavings are sequentially consistent: the unsynchronised read of   *)
(* Node::filled returns the value before or after a concurrent write,      *)
(* depending on the order of the two steps.                                *)
(***************************************************************************)
EXTENDS Integers, Sequences, FiniteSets, Bags, TLC

(***************************************************************************)
(* Bounds.  The driver runs 5 producers x 30 items and 3 consumers x 50    *)
(* items on a ring of 10 nodes; the model keeps the names and scales the   *)
(* numbers down.                                                           *)
(***************************************************************************)
BUFFER_SIZE == 2
ITEMS_PER_PRODUCER == 2
ITEMS_PER_CONSUMER == 1

Producers == {1, 2}
Consumers == {1, 2}

NULL == 0

\* the counters of TicketLock are atomic<int>: fetch_add wraps from INT_MAX to INT_MIN
INT_MAX == 2147483647
INT_MIN == (-INT_MAX) - 1

VARIABLES
    variant,            \* "unbounded" (InfiniteBuffer.cpp) or "bounded" (FiniteBuffer.cpp)
    items,              \* the items each producer thread pushes, in its order
    next_ticket,        \* TicketLock::next_ticket
    now_serving,        \* TicketLock::now_serving
    my_ticket,          \* local of TicketLock::lock, per producer
    nodes,              \* the heap: live Node objects, id |-> [data, filled, next]
    nalloc,             \* number of Node objects ever allocated (fresh ids)
    head,               \* LinkedListBuffer::head
    tail,               \* LinkedListBuffer::tail
    mutex_producer,     \* owner of each mutex, or NoOwner
    mutex_consumer,
    log_mutex,
    prod_stat_mutex,
    cons_stat_mutex,
    cv_not_empty,       \* consumers suspended in cv_not_empty.wait
    cv_not_full,        \* producers suspended in cv_not_full.wait
    ppc,                \* position of each producer thread
    cpc,                \* position of each consumer thread
    pleft,              \* produce calls each producer has still to start
    cleft,              \* consume calls each consumer has still to start
    pitem,              \* argument item of the running produce call
    citem,              \* local item of the running consume call
    plink,              \* local new_node (unbounded) / temp (bounded) of produce
    written,            \* history: items in the order they were written into the buffer
    removed,            \* history: items in the order consume read them from the buffer
    returned,           \* history: items in the order the consume calls returned them
    log,                \* the records in the log file (a bag; each append is one step)
    total_produce_time, \* LinkedListBuffer::total_produce_time
    total_consume_time, \* LinkedListBuffer::total_consume_time
    pacc,               \* the value of total_produce_time a producer's += has loaded
    cacc                \* the value of total_consume_time a consumer's += has loaded

vars == <<variant, items, next_ticket, now_serving, my_ticket, nodes, nalloc, head, tail,
          mutex_producer, mutex_consumer, log_mutex, prod_stat_mutex, cons_stat_mutex,
          cv_not_empty, cv_not_full, ppc, cpc, pleft, cleft, pitem, citem, plink,
          written, removed, returned, log, total_produce_time, total_consume_time,
          pacc, cacc>>

NoOwner == <<"none", 0>>
Prod(p) == <<"producer", p>>
Cons(c) == <<"consumer", c>>

\* Node::Node() : data(0), filled(false), next(nullptr)
Node_BornFilled == [data |-> 0, filled |-> TRUE, next |-> NULL]
Node == [data |-> 0, filled |-> FALSE, next |-> NULL]

\* The circular list built by the bounded constructor: node i links to i+1, the last to the first.
Ring_OneMore == [i \in 1..(BUFFER_SIZE + 1) |-> [Node EXCEPT !.next = (i % (BUFFER_SIZE + 1)) + 1]]
Ring == [i \in 1..BUFFER_SIZE |-> [Node EXCEPT !.next = (i % BUFFER_SIZE) + 1]]

\* int item = id * 1000 + i, for the i-th call (i from 0) of producer id
ItemOf(id, i) == id * 1000 + i

\* the items the driver's producer threads push
DriverItems == [p \in Producers |-> [i \in 1..ITEMS_PER_PRODUCER |-> ItemOf(p, i - 1)]]

\* the consume calls the driver's consumer threads make
DriverCalls == [c \in Consumers |-> ITEMS_PER_CONSUMER]

\* The state after construction, with the threads created and none started:
\* pushes[p] are the items producer thread p will push, calls[c] is the number of
\* consume calls consumer thread c will make, and issued is the value the two counters
\* of the ticket lock hold (0 after construction).
Start(pushes, calls, issued) ==
    /\ variant \in {"unbounded", "bounded"}
    /\ items = pushes
    /\ next_ticket = issued
    /\ now_serving = issued
    /\ my_ticket = [p \in Producers |-> 0]
    /\ nodes = IF variant = "bounded" THEN Ring ELSE [i \in {1} |-> Node]
    /\ nalloc = IF variant = "bounded" THEN BUFFER_SIZE ELSE 1
    /\ head = 1
    /\ tail = 1
    /\ mutex_producer = NoOwner
    /\ mutex_consumer = NoOwner
    /\ log_mutex = NoOwner
    /\ prod_stat_mutex = NoOwner
    /\ cons_stat_mutex = NoOwner
    /\ cv_not_empty = {}
    /\ cv_not_full = {}
    /\ ppc = [p \in Producers |-> "p_ready"]
    /\ cpc = [c \in Consumers |-> "c_ready"]
    /\ pleft = [p \in Producers |-> Len(pushes[p])]
    /\ cleft = calls
    /\ pitem = [p \in Producers |-> 0]
    /\ citem = [c \in Consumers |-> 0]
    /\ plink = [p \in Producers |-> NULL]
    /\ written = <<>>
    /\ removed = <<>>
    /\ returned = <<>>
    /\ log = EmptyBag
    /\ total_produce_time = 0
    /\ total_consume_time = 0
    /\ pacc = [p \in Producers |-> 0]
    /\ cacc = [c \in Consumers |-> 0]

Init == Start(DriverItems, DriverCalls, 0)


(***************************************************************************)
(* Helpers                                                                 *)
(***************************************************************************)
lockVars  == <<next_ticket, now_serving, my_ticket>>
heapVars  == <<nodes, nalloc, head, tail>>
mutexVars == <<mutex_producer, mutex_consumer, log_mutex, prod_stat_mutex, cons_stat_mutex>>
cvVars    == <<cv_not_empty, cv_not_full>>
prodVars  == <<ppc, pleft, pitem, plink>>
consVars  == <<cpc, cleft, citem>>
histVars  == <<written, removed, returned>>
statVars  == <<total_produce_time, total_consume_time, pacc, cacc>>

\* while (now_serving.load() != my_ticket) yield();  -- the loop exits when this holds
TicketTurn_Early(p) == now_serving <= my_ticket[p]
TicketTurn_OffByOne(p) == now_serving = my_ticket[p] + 1
TicketTurn(p) == now_serving = my_ticket[p]

\* next_ticket.fetch_add(1): the value the counter holds afterwards
TicketAfter_NoAdd(t) == t
TicketAfter_Saturate(t) == IF t = INT_MAX THEN INT_MAX ELSE t + 1
TicketAfter(t) == IF t = INT_MAX THEN INT_MIN ELSE t + 1

\* now_serving.fetch_add(1): the value the counter holds afterwards
ServingAfter_NoAdd(s) == s
ServingAfter(s) == IF s = INT_MAX THEN INT_MIN ELSE s + 1

\* predicate of cv_not_full.wait: [this] { return !head->filled; }
NotFull_Always == TRUE
NotFull == ~nodes[head].filled

\* predicate of cv_not_empty.wait: [&]() { return tail->filled; }
NotEmpty_Always == TRUE
NotEmpty == nodes[tail].filled

\* cv.wait(lock, pred) is  while (!pred()) wait(lock);  -- a woken thread tests pred again
Retest_Skipped(pred) == TRUE
Retest(pred) == pred

\* cv.wait(lock): the owner the mutex of lock has while thread t is suspended
WaitRelease_Keep(t) == t
WaitRelease(t) == NoOwner

\* the lock_guard of logEvent goes out of scope: the owner log_mutex has afterwards
LogRelease_Leak(t) == t
LogRelease(t) == NoOwner

\* head->next = new_node, made before head->filled = true: the value the next field of
\* the node at head holds when the node is marked filled
LinkTo_NotYet(n) == NULL
LinkTo(n) == n

\* delete temp: the heap without node n
Delete_Leak(heap, n) == heap
Delete(heap, n) == [m \in DOMAIN heap \ {n} |-> heap[m]]

\* consume, after tail = tail->next: the unbounded buffer has  delete temp;  the bounded
\* one leaves the node in the ring
Unlink_AlwaysDelete(heap, n) == Delete(heap, n)
Unlink(heap, n) == IF variant = "bounded" THEN heap ELSE Delete(heap, n)

\* logFile << event << endl: the log file with the record appended
LogAppend_Twice(file, rec) == (file (+) SetToBag({rec})) (+) SetToBag({rec})
LogAppend(file, rec) == file (+) SetToBag({rec})

\* the record of a log line: who did what with which item
Record(kind, id, item) == [kind |-> kind, id |-> id, item |-> item]

\* end - request_lock_time: the duration a call measures.  The clock is an input; it is
\* taken so that the calls measure different durations.
Elapsed(item) == (item % 1000) + 1

\* total_produce_time += ... / total_consume_time += ... : the value stored, from the
\* value loaded and the duration
StatAdd(total, d) == total + d

\* lock_guard<mutex> stats_lock(m): the thread goes on when the mutex is free
StatLockFree_NoLock(m) == TRUE
StatLockFree(m) == m = NoOwner

\* cv.notify_one(): the sets of suspended threads it may leave behind; one suspended
\* thread, if there is one, is made runnable (it still has to take the mutex back).
NotifyOne(cv) == IF cv = {} THEN {cv} ELSE {cv \ {w} : w \in cv}

(***************************************************************************)
(* TicketLock                                                              *)
(***************************************************************************)
\* produce() is entered and lock() takes its ticket: int my_ticket = next_ticket.fetch_add(1)
TicketFetch(p) ==
    /\ ppc[p] = "p_ready"
    /\ pleft[p] > 0
    /\ my_ticket' = [my_ticket EXCEPT ![p] = next_ticket]
    /\ next_ticket' = TicketAfter(next_ticket)
    /\ pitem' = [pitem EXCEPT ![p] = items[p][Len(items[p]) - pleft[p] + 1]]
    /\ pleft' = [pleft EXCEPT ![p] = @ - 1]
    /\ ppc' = [ppc EXCEPT ![p] = "p_spin"]
    /\ UNCHANGED <<variant, items, log, statVars,
                   now_serving, heapVars, mutexVars, cvVars, consVars, plink,
                   histVars>>

\* one turn of the spin loop: now_serving.load() is another ticket, this_thread::yield();
\* the thread runs and nothing changes
TicketSpin(p) ==
    /\ ppc[p] = "p_spin"
    /\ ~TicketTurn(p)
    /\ UNCHANGED vars

\* lock() returns: the spin loop sees now_serving == my_ticket
TicketEnter(p) ==
    /\ ppc[p] = "p_spin"
    /\ TicketTurn(p)
    /\ ppc' = [ppc EXCEPT ![p] = IF variant = "bounded" THEN "p_lock" ELSE "p_write"]
    /\ UNCHANGED <<variant, items, log, statVars,
                   lockVars, heapVars, mutexVars, cvVars, consVars,
                   pleft, pitem, plink, histVars>>

(***************************************************************************)
(* produce                                                                 *)
(***************************************************************************)
\* bounded: unique_lock<mutex> lock(mutex_producer); cv_not_full.wait tests its predicate
ProduceLock(p) ==
    /\ ppc[p] = "p_lock"
    /\ mutex_producer = NoOwner
    /\ mutex_producer' = Prod(p)
    /\ ppc' = [ppc EXCEPT ![p] = IF NotFull THEN "p_write" ELSE "p_wait"]
    /\ UNCHANGED <<variant, items, log, statVars,
                   lockVars, heapVars, mutex_consumer, log_mutex, prod_stat_mutex,
                   cons_stat_mutex, cvVars, consVars, pleft, pitem, plink, histVars>>

\* bounded: the predicate was false; wait() releases mutex_producer and suspends the thread
ProduceWait(p) ==
    /\ ppc[p] = "p_wait"
    /\ mutex_producer' = WaitRelease(Prod(p))
    /\ cv_not_full' = cv_not_full \cup {p}
    /\ ppc' = [ppc EXCEPT ![p] = "p_blocked"]
    /\ UNCHANGED <<variant, items, log, statVars,
                   lockVars, heapVars, mutex_consumer, log_mutex, prod_stat_mutex,
                   cons_stat_mutex, cv_not_empty, consVars, pleft, pitem, plink, histVars>>

\* bounded: a wait may return without a notify (spurious wakeup)
ProduceSpuriousWake(p) ==
    /\ ppc[p] = "p_blocked"
    /\ p \in cv_not_full
    /\ cv_not_full' = cv_not_full \ {p}
    /\ ppc' = [ppc EXCEPT ![p] = "p_relock"]
    /\ UNCHANGED <<variant, items, log, statVars,
                   lockVars, heapVars, mutexVars, cv_not_empty, consVars,
                   pleft, pitem, plink, histVars>>

\* bounded: the woken thread takes mutex_producer back and re-tests the predicate
ProduceRelock(p) ==
    /\ ppc[p] = "p_relock"
    /\ mutex_producer = NoOwner
    /\ mutex_producer' = Prod(p)
    /\ ppc' = [ppc EXCEPT ![p] = IF Retest(NotFull) THEN "p_write" ELSE "p_wait"]
    /\ UNCHANGED <<variant, items, log, statVars,
                   lockVars, heapVars, mutex_consumer, log_mutex, prod_stat_mutex,
                   cons_stat_mutex, cvVars, consVars, pleft, pitem, plink, histVars>>

\* unbounded: head->data = item; Node* new_node = new Node(); head->next = new_node;
\* bounded:   head->data = item; Node* temp = head->next;
ProduceWrite(p) ==
    /\ ppc[p] = "p_write"
    /\ IF variant = "bounded"
       THEN /\ nodes' = [nodes EXCEPT ![head].data = pitem[p]]
            /\ plink' = [plink EXCEPT ![p] = nodes[head].next]
            /\ nalloc' = nalloc
       ELSE /\ nodes' = [n \in DOMAIN nodes \cup {nalloc + 1} |->
                           IF n = nalloc + 1 THEN Node
                           ELSE IF n = head
                                THEN [nodes[n] EXCEPT !.data = pitem[p],
                                                      !.next = LinkTo(nalloc + 1)]
                                ELSE nodes[n]]
            /\ plink' = [plink EXCEPT ![p] = nalloc + 1]
            /\ nalloc' = nalloc + 1
    /\ ppc' = [ppc EXCEPT ![p] = "p_fill"]
    /\ UNCHANGED <<variant, items, log, statVars,
                   lockVars, head, tail, mutexVars, cvVars, consVars,
                   pleft, pitem, histVars>>

\* head->filled = true (the item is in the buffer);  head = new_node / head = temp
ProduceFill(p) ==
    /\ ppc[p] = "p_fill"
    /\ nodes' = [nodes EXCEPT ![head].filled = TRUE]
    /\ written' = Append(written, pitem[p])
    /\ head' = plink[p]
    /\ plink' = [plink EXCEPT ![p] = NULL]
    /\ ppc' = [ppc EXCEPT ![p] = "p_log"]
    /\ UNCHANGED <<variant, items, log, statVars,
                   lockVars, nalloc, tail, mutexVars, cvVars, consVars,
                   pleft, pitem, removed, returned>>

\* logEvent: lock_guard<mutex> lock(log_mutex); the line is appended to the log file
ProduceLog(p) ==
    /\ ppc[p] = "p_log"
    /\ log_mutex = NoOwner
    /\ log_mutex' = Prod(p)
    /\ log' = LogAppend(log, Record("produced", p, pitem[p]))
    /\ ppc' = [ppc EXCEPT ![p] = "p_logged"]
    /\ UNCHANGED <<variant, items, statVars,
                   lockVars, heapVars, mutex_producer, mutex_consumer,
                   prod_stat_mutex, cons_stat_mutex, cvVars, consVars,
                   pleft, pitem, plink, histVars>>

\* logEvent returns (its lock_guard releases log_mutex), then
\* unbounded: ticket_lock_producer.unlock();   bounded: lock.unlock() of mutex_producer
ProduceLogged(p) ==
    /\ ppc[p] = "p_logged"
    /\ log_mutex' = LogRelease(Prod(p))
    /\ IF variant = "bounded"
       THEN mutex_producer' = NoOwner /\ now_serving' = now_serving
       ELSE mutex_producer' = mutex_producer /\ now_serving' = ServingAfter(now_serving)
    /\ ppc' = [ppc EXCEPT ![p] = "p_notify"]
    /\ UNCHANGED <<variant, items, log, statVars,
                   next_ticket, my_ticket, heapVars, mutex_consumer,
                   prod_stat_mutex, cons_stat_mutex, cvVars, consVars,
                   pleft, pitem, plink, histVars>>

\* cv_not_empty.notify_one()
ProduceNotify(p) ==
    /\ ppc[p] = "p_notify"
    /\ \E after \in NotifyOne(cv_not_empty) :
          /\ cv_not_empty' = after
          /\ cpc' = [c \in Consumers |->
                       IF c \in cv_not_empty \ after THEN "c_relock" ELSE cpc[c]]
    /\ ppc' = [ppc EXCEPT ![p] = IF variant = "bounded" THEN "p_unlock" ELSE "p_stat"]
    /\ UNCHANGED <<variant, items, log, statVars,
                   lockVars, heapVars, mutexVars, cv_not_full,
                   cleft, citem, pleft, pitem, plink, histVars>>

\* bounded: ticket_lock_producer.unlock()
ProduceUnlock(p) ==
    /\ ppc[p] = "p_unlock"
    /\ now_serving' = ServingAfter(now_serving)
    /\ ppc' = [ppc EXCEPT ![p] = "p_stat"]
    /\ UNCHANGED <<variant, items, log, statVars,
                   next_ticket, my_ticket, heapVars, mutexVars, cvVars, consVars,
                   pleft, pitem, plink, histVars>>

\* lock_guard<mutex> stats_lock(prod_stat_mutex); total_produce_time += ... loads the total
ProduceStat(p) ==
    /\ ppc[p] = "p_stat"
    /\ StatLockFree(prod_stat_mutex)
    /\ prod_stat_mutex' = Prod(p)
    /\ pacc' = [pacc EXCEPT ![p] = total_produce_time]
    /\ ppc' = [ppc EXCEPT ![p] = "p_return"]
    /\ UNCHANGED <<variant, items, log, total_produce_time, total_consume_time, cacc,
                   lockVars, heapVars, mutex_producer, mutex_consumer, log_mutex,
                   cons_stat_mutex, cvVars, consVars, pleft, pitem, plink, histVars>>

\* total_produce_time += ... stores the sum; produce returns: the lock_guard releases
\* prod_stat_mutex
ProduceReturn(p) ==
    /\ ppc[p] = "p_return"
    /\ total_produce_time' = StatAdd(pacc[p], Elapsed(pitem[p]))
    /\ pacc' = [pacc EXCEPT ![p] = 0]
    /\ prod_stat_mutex' = NoOwner
    /\ pitem' = [pitem EXCEPT ![p] = 0]
    /\ ppc' = [ppc EXCEPT ![p] = "p_ready"]
    /\ UNCHANGED <<variant, items, log, total_consume_time, cacc,
                   lockVars, heapVars, mutex_producer, mutex_consumer, log_mutex,
                   cons_stat_mutex, cvVars, consVars, pleft, plink, histVars>>

(***************************************************************************)
(* consume                                                                 *)
(***************************************************************************)
\* consume() is entered: unique_lock<mutex> lock(mutex_consumer); cv_not_empty.wait
\* tests its predicate
ConsumeLock(c) ==
    /\ cpc[c] = "c_ready"
    /\ cleft[c] > 0
    /\ mutex_consumer = NoOwner
    /\ mutex_consumer' = Cons(c)
    /\ cleft' = [cleft EXCEPT ![c] = @ - 1]
    /\ cpc' = [cpc EXCEPT ![c] = IF NotEmpty THEN "c_read" ELSE "c_wait"]
    /\ UNCHANGED <<variant, items, log, statVars,
                   lockVars, heapVars, mutex_producer, log_mutex, prod_stat_mutex,
                   cons_stat_mutex, cvVars, prodVars, citem, histVars>>

\* the predicate was false; wait() releases mutex_consumer and suspends the thread
ConsumeWait(c) ==
    /\ cpc[c] = "c_wait"
    /\ mutex_consumer' = WaitRelease(Cons(c))
    /\ cv_not_empty' = cv_not_empty \cup {c}
    /\ cpc' = [cpc EXCEPT ![c] = "c_blocked"]
    /\ UNCHANGED <<variant, items, log, statVars,
                   lockVars, heapVars, mutex_producer, log_mutex, prod_stat_mutex,
                   cons_stat_mutex, cv_not_full, prodVars, cleft, citem, histVars>>

\* a wait may return without a notify (spurious wakeup)
ConsumeSpuriousWake(c) ==
    /\ cpc[c] = "c_blocked"
    /\ c \in cv_not_empty
    /\ cv_not_empty' = cv_not_empty \ {c}
    /\ cpc' = [cpc EXCEPT ![c] = "c_relock"]
    /\ UNCHANGED <<variant, items, log, statVars,
                   lockVars, heapVars, mutexVars, cv_not_full, prodVars,
                   cleft, citem, histVars>>

\* the woken thread takes mutex_consumer back and re-tests the predicate
ConsumeRelock(c) ==
    /\ cpc[c] = "c_relock"
    /\ mutex_consumer = NoOwner
    /\ mutex_consumer' = Cons(c)
    /\ cpc' = [cpc EXCEPT ![c] = IF Retest(NotEmpty) THEN "c_read" ELSE "c_wait"]
    /\ UNCHANGED <<variant, items, log, statVars,
                   lockVars, heapVars, mutex_producer, log_mutex, prod_stat_mutex,
                   cons_stat_mutex, cvVars, prodVars, cleft, citem, histVars>>

\* int item = tail->data; tail->filled = false;
ConsumeRead(c) ==
    /\ cpc[c] = "c_read"
    /\ citem' = [citem EXCEPT ![c] = nodes[tail].data]
    /\ nodes' = [nodes EXCEPT ![tail].filled = FALSE]
    /\ removed' = Append(removed, nodes[tail].data)
    /\ cpc' = [cpc EXCEPT ![c] = "c_log"]
    /\ UNCHANGED <<variant, items, log, statVars,
                   lockVars, nalloc, head, tail, mutexVars, cvVars, prodVars,
                   cleft, written, returned>>

\* logEvent: lock_guard<mutex> lock(log_mutex); the line is appended to the log file
ConsumeLog(c) ==
    /\ cpc[c] = "c_log"
    /\ log_mutex = NoOwner
    /\ log_mutex' = Cons(c)
    /\ log' = LogAppend(log, Record("consumed", c, citem[c]))
    /\ cpc' = [cpc EXCEPT ![c] = "c_logged"]
    /\ UNCHANGED <<variant, items, statVars,
                   lockVars, heapVars, mutex_producer, mutex_consumer,
                   prod_stat_mutex, cons_stat_mutex, cvVars, prodVars, cleft, citem, histVars>>

\* logEvent returns (its lock_guard releases log_mutex);
\* Node* temp = tail; tail = tail->next;  unbounded: delete temp;  lock.unlock()
ConsumeLogged(c) ==
    /\ cpc[c] = "c_logged"
    /\ log_mutex' = LogRelease(Cons(c))
    /\ tail' = nodes[tail].next
    /\ nodes' = Unlink(nodes, tail)
    /\ mutex_consumer' = NoOwner
    /\ cpc' = [cpc EXCEPT ![c] = IF variant = "bounded" THEN "c_notify" ELSE "c_stat"]
    /\ UNCHANGED <<variant, items, log, statVars,
                   lockVars, nalloc, head, mutex_producer, prod_stat_mutex,
                   cons_stat_mutex, cvVars, prodVars, cleft, citem, histVars>>

\* bounded: cv_not_full.notify_one()
ConsumeNotify(c) ==
    /\ cpc[c] = "c_notify"
    /\ \E after \in NotifyOne(cv_not_full) :
          /\ cv_not_full' = after
          /\ ppc' = [p \in Producers |->
                       IF p \in cv_not_full \ after THEN "p_relock" ELSE ppc[p]]
    /\ cpc' = [cpc EXCEPT ![c] = "c_stat"]
    /\ UNCHANGED <<variant, items, log, statVars,
                   lockVars, heapVars, mutexVars, cv_not_empty, pleft, pitem, plink,
                   cleft, citem, histVars>>

\* lock_guard<mutex> stats_lock(cons_stat_mutex); total_consume_time += ... loads the total
ConsumeStat(c) ==
    /\ cpc[c] = "c_stat"
    /\ StatLockFree(cons_stat_mutex)
    /\ cons_stat_mutex' = Cons(c)
    /\ cacc' = [cacc EXCEPT ![c] = total_consume_time]
    /\ cpc' = [cpc EXCEPT ![c] = "c_return"]
    /\ UNCHANGED <<variant, items, log, total_produce_time, total_consume_time, pacc,
                   lockVars, heapVars, mutex_producer, mutex_consumer, log_mutex,
                   prod_stat_mutex, cvVars, prodVars, cleft, citem, histVars>>

\* total_consume_time += ... stores the sum; return item: the lock_guard releases
\* cons_stat_mutex
ConsumeReturn(c) ==
    /\ cpc[c] = "c_return"
    /\ total_consume_time' = StatAdd(cacc[c], Elapsed(citem[c]))
    /\ cacc' = [cacc EXCEPT ![c] = 0]
    /\ cons_stat_mutex' = NoOwner
    /\ returned' = Append(returned, citem[c])
    /\ citem' = [citem EXCEPT ![c] = 0]
    /\ cpc' = [cpc EXCEPT ![c] = "c_ready"]
    /\ UNCHANGED <<variant, items, log, total_produce_time, pacc,
                   lockVars, heapVars, mutex_producer, mutex_consumer, log_mutex,
                   prod_stat_mutex, cvVars, prodVars, cleft, written, removed>>

(***************************************************************************)
(* The program: any thread takes its next step                             *)
(***************************************************************************)
ProducerStep(p) ==
    \/ TicketFetch(p) \/ TicketEnter(p) \/ ProduceLock(p) \/ ProduceWait(p)
    \/ ProduceRelock(p) \/ ProduceWrite(p) \/ ProduceFill(p) \/ ProduceLog(p)
    \/ ProduceLogged(p) \/ ProduceNotify(p) \/ ProduceUnlock(p) \/ ProduceStat(p)
    \/ ProduceReturn(p)

ConsumerStep(c) ==
    \/ ConsumeLock(c) \/ ConsumeWait(c) \/ ConsumeRelock(c) \/ ConsumeRead(c)
    \/ ConsumeLog(c) \/ ConsumeLogged(c) \/ ConsumeNotify(c) \/ ConsumeStat(c)
    \/ ConsumeReturn(c)

Next ==
    \/ \E p \in Producers : ProducerStep(p) \/ ProduceSpuriousWake(p) \/ TicketSpin(p)
    \/ \E c \in Consumers : ConsumerStep(c) \/ ConsumeSpuriousWake(c)

Spec == Init /\ [][Next]_vars

(***************************************************************************)
(* What a state says about the threads                                     *)
(***************************************************************************)
\* p is between the return of ticket_lock_producer.lock() and the call of unlock()
HoldsTicket(p) ==
    \/ ppc[p] \in {"p_lock", "p_wait", "p_blocked", "p_relock", "p_write", "p_fill",
                   "p_log", "p_logged"}
    \/ variant = "bounded" /\ ppc[p] \in {"p_notify", "p_unlock"}

\* p has passed the cv_not_full wait (bounded) and has not yet marked the node filled
PassedWait(p) == ppc[p] \in {"p_write", "p_fill"}

\* c has read its item and has not yet returned it
HoldsItem(c) == cpc[c] \in {"c_log", "c_logged", "c_notify", "c_stat", "c_return"}

\* c has read its item and has not yet deleted (unbounded) or left (bounded) the node
BeforeDelete(c) == cpc[c] \in {"c_log", "c_logged"}

\* p has allocated new_node and not yet marked the old head filled
AfterAlloc(p) == ppc[p] = "p_fill"

LiveNodes == Cardinality(DOMAIN nodes)
Backlog == Len(written) - Len(removed)

IsPrefix(s, t) == Len(s) <= Len(t) /\ \A i \in 1..Len(s) : s[i] = t[i]
Range(s) == {s[i] : i \in 1..Len(s)}

(***************************************************************************)
(* C1                                                                      *)
(***************************************************************************)
\* C1 (as stated): the values handed back by the consume calls, in the order in which
\* the calls return, are the items in the order they were written into the buffer.
C1_ReturnOrderIsWriteOrder == IsPrefix(returned, written)

\* C1 (amended): the values the consume calls read from the buffer, in the order in
\* which they read them under mutex_consumer, are the items in the order they were
\* written, none lost, duplicated or reordered; every call returns the value it read,
\* and every value read is returned once or is still held by the call that read it.
C1_RemovalOrderIsWriteOrder ==
    /\ IsPrefix(removed, written)
    /\ Cardinality(Range(written)) = Len(written)
    /\ Range(returned) \cup {citem[c] : c \in {d \in Consumers : HoldsItem(d)}} = Range(removed)
    /\ Len(returned) + Cardinality({c \in Consumers : HoldsItem(c)}) = Len(removed)

\* two consume calls have returned, in the opposite order of their reads
C1_Witness ==
    /\ Len(returned) = 2
    /\ removed = SubSeq(written, 1, 2)
    /\ returned = <<written[2], written[1]>>

(***************************************************************************)
(* C2                                                                      *)
(***************************************************************************)
\* C2: in the bounded buffer the number of items written and not yet read, and the
\* number of nodes marked filled, never exceed BUFFER_SIZE.
C2_BoundedCapacity ==
    variant = "bounded" =>
        /\ Backlog <= BUFFER_SIZE
        /\ Cardinality({n \in DOMAIN nodes : nodes[n].filled}) <= BUFFER_SIZE

\* the ring is full and has wrapped: more items were written than it has nodes
C2_Witness ==
    /\ variant = "bounded"
    /\ Backlog = BUFFER_SIZE
    /\ Len(written) > BUFFER_SIZE

(***************************************************************************)
(* C3                                                                      *)
(***************************************************************************)
\* C3: in the bounded buffer, as long as nothing has been consumed, at most BUFFER_SIZE
\* produce calls pass the cv_not_full wait: with BUFFER_SIZE items written no further
\* producer is past the wait.
C3_BlocksWhenFull ==
    (variant = "bounded" /\ Len(removed) = 0) =>
        Len(written) + Cardinality({p \in Producers : PassedWait(p)}) <= BUFFER_SIZE

\* BUFFER_SIZE items written, none consumed, and the next producer suspended on cv_not_full
C3_Witness ==
    /\ variant = "bounded"
    /\ Len(removed) = 0
    /\ Len(written) = BUFFER_SIZE
    /\ \E p \in Producers : ppc[p] = "p_blocked" /\ p \in cv_not_full

(***************************************************************************)
(* C7                                                                      *)
(***************************************************************************)
\* C7: at most one thread is between the return of lock() and the call of unlock(),
\* and that thread is the one whose ticket is being served.
C7_MutualExclusion ==
    /\ Cardinality({p \in Producers : HoldsTicket(p)}) <= 1
    /\ \A p \in Producers : HoldsTicket(p) => my_ticket[p] = now_serving

\* one producer is inside, the other one spins on a later ticket
C7_Witness ==
    \E p, q \in Producers :
        /\ HoldsTicket(p) /\ ppc[p] = "p_fill"
        /\ ppc[q] = "p_spin" /\ my_ticket[q] = my_ticket[p] + 1

(***************************************************************************)
(* C8                                                                      *)
(***************************************************************************)
\* C8 (as stated): in the unbounded buffer the number of live nodes is, at every
\* instant, (items produced - items consumed) + 1.
C8_NodeCountAtEveryInstant ==
    variant = "unbounded" => LiveNodes = Backlog + 1

\* C8 (amended): the number of live nodes is (items produced - items consumed) + 1,
\* plus one for every produce call that has allocated its node and not yet marked the
\* item filled, plus one for every consume call that has read its item and not yet
\* deleted the node; so it is (produced - consumed) + 1 whenever no call is in between.
C8_NodeCount ==
    variant = "unbounded" =>
        LiveNodes = Backlog + 1 + Cardinality({p \in Producers : AfterAlloc(p)})
                                + Cardinality({c \in Consumers : BeforeDelete(c)})

\* every item of the workload is in the buffer, nothing consumed, nobody in between
C8_Witness ==
    /\ variant = "unbounded"
    /\ Len(written) = ITEMS_PER_PRODUCER * Cardinality(Producers)
    /\ Len(removed) = 0
    /\ \A p \in Producers : ~AfterAlloc(p)
    /\ LiveNodes = ITEMS_PER_PRODUCER * Cardinality(Producers) + 1

(***************************************************************************)
(* C5                                                                      *)
(***************************************************************************)
\* C5: the ticket lock grants access in request order.  A lock() call that takes its
\* ticket gets a ticket later than that of every call still waiting or inside, and a
\* call leaves lock() only when every other waiting call holds a later ticket: so of
\* two calls, the one whose ticket fetch came first enters the critical section first.
C5_TicketOrder ==
    [][\A p \in Producers :
          /\ (ppc[p] = "p_ready" /\ ppc'[p] = "p_spin") =>
                \A q \in Producers \ {p} :
                    (ppc[q] = "p_spin" \/ HoldsTicket(q)) => my_ticket[q] < my_ticket'[p]
          /\ (ppc[p] = "p_spin" /\ ppc'[p] # "p_spin") =>
                \A q \in Producers \ {p} :
                    /\ ~HoldsTicket(q)
                    /\ ppc[q] = "p_spin" => my_ticket[p] < my_ticket[q]]_vars

\* a second-round ticket is inside while the other producer waits with the next one
C5_Witness ==
    \E p, q \in Producers :
        /\ HoldsTicket(p) /\ my_ticket[p] >= 2
        /\ ppc[q] = "p_spin" /\ my_ticket[q] = my_ticket[p] + 1

(***************************************************************************)
(* C9                                                                      *)
(***************************************************************************)
Threads == {Prod(p) : p \in Producers} \cup {Cons(c) : c \in Consumers}

\* the thread inside the ticket lock, or NoOwner
TicketOwner ==
    IF \E p \in Producers : HoldsTicket(p)
    THEN Prod(CHOOSE p \in Producers : HoldsTicket(p))
    ELSE NoOwner

\* the owner of the lock that thread t has asked for and cannot have yet, or NoOwner
\* when t is not waiting for a lock
Blocker(t) ==
    IF t[1] = "producer"
    THEN CASE ppc[t[2]] = "p_spin" /\ ~TicketTurn(t[2])  -> TicketOwner
           [] ppc[t[2]] \in {"p_lock", "p_relock"}        -> mutex_producer
           [] ppc[t[2]] = "p_log"                         -> log_mutex
           [] ppc[t[2]] = "p_stat"                        -> prod_stat_mutex
           [] OTHER                                       -> NoOwner
    ELSE IF t[1] = "consumer"
    THEN CASE cpc[t[2]] = "c_ready" /\ cleft[t[2]] > 0    -> mutex_consumer
           [] cpc[t[2]] = "c_relock"                      -> mutex_consumer
           [] cpc[t[2]] = "c_log"                         -> log_mutex
           [] cpc[t[2]] = "c_stat"                        -> cons_stat_mutex
           [] OTHER                                       -> NoOwner
    ELSE NoOwner

\* the thread reached from t by following n waits
RECURSIVE WaitChain(_, _)
WaitChain(t, n) == IF n = 0 THEN t ELSE Blocker(WaitChain(t, n - 1))

\* C9: no set of threads waits in a circle, each for a lock (ticket lock,
\* mutex_producer, mutex_consumer, log_mutex, prod_stat_mutex, cons_stat_mutex) that
\* the next one holds; a thread waiting for a lock it holds itself is a circle of one.
\* A thread waits for at most one lock and a lock has at most one holder, so there is
\* no circle exactly when every chain of waits ends, within as many waits as there are
\* threads, at a thread that is not waiting.
C9_NoCircularWait ==
    \A t \in Threads : WaitChain(t, Cardinality(Threads)) = NoOwner

\* a chain of two waits: a producer waits for the ticket lock, whose holder waits for
\* log_mutex, which a consumer holds together with mutex_consumer
C9_Witness ==
    \E p, q \in Producers, c \in Consumers :
        /\ Blocker(Prod(q)) = Prod(p)
        /\ Blocker(Prod(p)) = Cons(c)
        /\ mutex_consumer = Cons(c)

(***************************************************************************)
(* C10                                                                     *)
(***************************************************************************)
\* p has marked its item filled and has not yet called cv_not_empty.notify_one()
NotifyPending(p) == ppc[p] \in {"p_log", "p_logged", "p_notify"}

\* C10: once a producer has filled the node at tail and signalled, no consumer stays
\* suspended on cv_not_empty while the item is unconsumed: when the node at tail is
\* filled and no notify is still to come, either no consumer is suspended or one has
\* been woken or is taking the item.
C10_NoConsumerSleepsOnItem ==
    (NotEmpty /\ \A p \in Producers : ~NotifyPending(p)) =>
        \/ cv_not_empty = {}
        \/ \E c \in Consumers : cpc[c] \in {"c_relock", "c_read"}

(***************************************************************************)
(* Fair scheduling                                                         *)
(*                                                                         *)
(* Every producer thread that can take a step eventually takes one.  Of    *)
(* the consumers only this much is assumed: one that is inside logEvent    *)
(* (holding log_mutex) comes out of it.  A consumer may otherwise stall    *)
(* anywhere, and a wait need never wake spuriously.  The driver starts no  *)
(* consumer thread or one.                                                 *)
(***************************************************************************)
ConsumersStarted(k) == [c \in Consumers |-> IF c <= k THEN ITEMS_PER_CONSUMER ELSE 0]

InitFair == \E k \in {0, 1} : Start(DriverItems, ConsumersStarted(k), 0)

Fairness ==
    /\ \A p \in Producers : WF_vars(ProducerStep(p))
    /\ \A c \in Consumers : WF_vars(ConsumeLogged(c))

SpecFair == InitFair /\ [][Next]_vars /\ Fairness

(***************************************************************************)
(* C4                                                                      *)
(***************************************************************************)
\* p is inside produce and cannot take its next step
Waiting(p) == ppc[p] # "p_ready" /\ ~ENABLED ProducerStep(p)

\* C4 as stated: in the unbounded buffer the only thing a producer inside produce
\* ever waits for is its turn on the ticket lock.
C4_WaitsOnlyForTicket ==
    variant = "unbounded" => \A p \in Producers : Waiting(p) => ppc[p] = "p_spin"

\* C4 as amended: in the unbounded buffer a producer inside produce waits only for its
\* turn on the ticket lock, for log_mutex or for prod_stat_mutex (never for
\* mutex_consumer, a condition variable or the backlog), and under fair scheduling every
\* produce call returns, whatever the backlog and wherever consumers stall outside
\* logEvent.
C4_ProduceReturns ==
    /\ [](variant = "unbounded" =>
            \A p \in Producers : Waiting(p) => ppc[p] \in {"p_spin", "p_log", "p_stat"})
    /\ \A p \in Producers :
          (variant = "unbounded" /\ ppc[p] # "p_ready") ~> (ppc[p] = "p_ready")

\* every produce call has returned with nothing consumed, while the one consumer sits
\* inside consume holding mutex_consumer
C4_Witness ==
    /\ variant = "unbounded"
    /\ \A p \in Producers : ppc[p] = "p_ready" /\ pleft[p] = 0
    /\ Len(removed) = 0
    /\ Backlog = ITEMS_PER_PRODUCER * Cardinality(Producers)
    /\ mutex_consumer = Cons(1)

(***************************************************************************)
(* C6                                                                      *)
(***************************************************************************)
\* C6: the ticket lock is starvation-free.  Under fair scheduling, if every thread that
\* acquires the lock always calls unlock() again, then every thread that is in the spin
\* loop of lock() returns from it.
C6_StarvationFree ==
    (\A q \in Producers : []<>(~HoldsTicket(q))) =>
        (\A p \in Producers : (ppc[p] = "p_spin") ~> HoldsTicket(p))

\* the call with the last ticket has returned from lock() after waiting for every
\* earlier one
C6_Witness ==
    \E p \in Producers :
        /\ HoldsTicket(p)
        /\ my_ticket[p] = ITEMS_PER_PRODUCER * Cardinality(Producers) - 1
        /\ now_serving = my_ticket[p]

(***************************************************************************)
(* C11                                                                     *)
(***************************************************************************)
\* c has cleared the filled flag of its node and has not yet called
\* cv_not_full.notify_one()
ClearPending(c) == cpc[c] \in {"c_log", "c_logged", "c_notify"}

\* C11: in the bounded buffer a producer is suspended on cv_not_full only while the node
\* at head is filled: once a consumer has cleared that node and signalled (no notify is
\* still to come), either no producer is suspended on cv_not_full or the suspended one
\* has been woken.
C11_NoProducerSleepsOnFreeSlot ==
    (variant = "bounded" /\ NotFull /\ \A c \in Consumers : ~ClearPending(c)) =>
        \/ cv_not_full = {}
        \/ \E p \in Producers : ppc[p] = "p_relock"

(***************************************************************************)
(* C12                                                                     *)
(***************************************************************************)
\* p is inside produce and has called logEvent / c is inside consume and has
PastProduceLog(p) ==
    ppc[p] \in {"p_logged", "p_notify", "p_unlock", "p_stat", "p_return"}
PastConsumeLog(c) == cpc[c] \in {"c_logged", "c_notify", "c_stat", "c_return"}

\* the number of produce calls of p that have called logEvent: those that have returned
\* and the running one if it is past its logEvent call
ProduceCallsLogged(p) ==
    (Len(items[p]) - pleft[p]) - (IF ppc[p] = "p_ready" \/ PastProduceLog(p) THEN 0 ELSE 1)

\* the records of one kind in the log file
Records(kind) == {r \in BagToSet(log) : r.kind = kind}

\* the threads inside logEvent, between taking and releasing log_mutex
InLogEvent ==
    {Prod(p) : p \in {q \in Producers : ppc[q] = "p_logged"}}
        \cup {Cons(c) : c \in {d \in Consumers : cpc[d] = "c_logged"}}

\* C12: every produce or consume call that has got past its logEvent call, so every
\* completed one, has put exactly one record into the log, never none and never two, and
\* a thread appends only while it alone holds log_mutex.
C12_OneRecordPerCall ==
    [](LET consumed == Records("consumed") IN
       /\ BagCardinality(log) = Cardinality(BagToSet(log))
       /\ Records("produced") =
             UNION {{Record("produced", p, items[p][i]) : i \in 1..ProduceCallsLogged(p)} :
                       p \in Producers}
       /\ Cardinality(consumed) =
             Len(returned) + Cardinality({c \in Consumers : PastConsumeLog(c)})
       /\ \A i \in 1..Len(returned) : \E r \in consumed : r.item = returned[i]
       /\ Cardinality(InLogEvent) <= 1
       /\ \A t \in InLogEvent : log_mutex = t)

\* every thread has finished, and the log holds one record for each of the calls
C12_Witness ==
    /\ \A p \in Producers : ppc[p] = "p_ready" /\ pleft[p] = 0
    /\ \A c \in Consumers : cpc[c] = "c_ready" /\ cleft[c] = 0
    /\ Len(returned) = ITEMS_PER_CONSUMER * Cardinality(Consumers)
    /\ BagCardinality(log) = Len(written) + Len(returned)

(***************************************************************************)
(* C13                                                                     *)
(***************************************************************************)
\* C13: the log follows the order in which the operations took effect: whatever prefix
\* of the log has been written, every item with a consume record in it has its produce
\* record in it, so the produce records are never fewer than the consume records.
C13_ProduceRecordFirst ==
    /\ \A r \in Records("consumed") : \E q \in Records("produced") : q.item = r.item
    /\ Cardinality(Records("produced")) >= Cardinality(Records("consumed"))

(***************************************************************************)
(* C14                                                                     *)
(***************************************************************************)
\* the number of produce calls of p that have added their duration to total_produce_time
\* (the += is complete when the call returns)
ProduceCallsAdded(p) ==
    (Len(items[p]) - pleft[p]) - (IF ppc[p] = "p_ready" THEN 0 ELSE 1)

\* the sum of the durations measured by the calls that moved the items of s
RECURSIVE SumElapsed(_)
SumElapsed(s) == IF s = <<>> THEN 0 ELSE Elapsed(Head(s)) + SumElapsed(Tail(s))

\* the sum of f over the set S
RECURSIVE Sum(_, _)
Sum(f, S) ==
    IF S = {} THEN 0 ELSE LET x == CHOOSE y \in S : TRUE IN f[x] + Sum(f, S \ {x})

AllFinished ==
    /\ \A p \in Producers : ppc[p] = "p_ready" /\ pleft[p] = 0
    /\ \A c \in Consumers : cpc[c] = "c_ready" /\ cleft[c] = 0

\* C14: total_produce_time is the sum of the durations measured by the produce calls that
\* have made their update, and total_consume_time that of the consume calls that have
\* made theirs; so when all threads have finished every call has contributed exactly
\* once and no update is lost.
C14_TotalsAreSums ==
    [](/\ total_produce_time =
             Sum([p \in Producers |-> SumElapsed(SubSeq(items[p], 1, ProduceCallsAdded(p)))],
                 Producers)
       /\ total_consume_time = SumElapsed(returned)
       /\ AllFinished =>
             /\ total_produce_time = Sum([p \in Producers |-> SumElapsed(items[p])], Producers)
             /\ total_consume_time = SumElapsed(returned))

\* all threads have finished and both totals hold the contributions of several calls
C14_Witness ==
    /\ AllFinished
    /\ Len(returned) >= 2
    /\ total_consume_time = SumElapsed(returned)
    /\ total_produce_time > SumElapsed(items[1])

(***************************************************************************)
(* C15                                                                     *)
(***************************************************************************)
\* the thread that takes the step writing a filled flag: a producer in ProduceFill
\* (head->filled = true) or a consumer in ConsumeRead (tail->filled = false)
FlagWriter ==
    IF \E p \in Producers : ppc[p] = "p_fill" /\ ppc'[p] = "p_log"
    THEN Prod(CHOOSE p \in Producers : ppc[p] = "p_fill" /\ ppc'[p] = "p_log")
    ELSE IF \E c \in Consumers : cpc[c] = "c_read" /\ cpc'[c] = "c_log"
    THEN Cons(CHOOSE c \in Consumers : cpc[c] = "c_read" /\ cpc'[c] = "c_log")
    ELSE NoOwner

\* C15: every write of a filled flag is made by a thread that holds the mutex the
\* waiters on the flag pass to their condition variable: mutex_consumer, whose holders
\* test tail->filled for cv_not_empty, and in the bounded buffer also mutex_producer,
\* whose holders test !head->filled for cv_not_full.
C15_FlagWrittenUnderWaitersMutex ==
    [][\A n \in DOMAIN nodes \cap DOMAIN nodes' :
          nodes[n].filled # nodes'[n].filled =>
              /\ mutex_consumer = FlagWriter
              /\ variant = "bounded" => mutex_producer = FlagWriter]_vars

(***************************************************************************)
(* C16                                                                     *)
(***************************************************************************)
\* C16: also with spurious wakeups, a consumer that is about to read tail->data finds the
\* node at tail filled, and a bounded producer that is about to write head->data, or has
\* written it and not yet set the flag, finds the node at head not filled: no slot is read
\* while empty and no unconsumed item is overwritten.
C16_NoReadEmptyNoOverwrite ==
    /\ \A c \in Consumers :
          cpc[c] = "c_read" => tail \in DOMAIN nodes /\ nodes[tail].filled
    /\ \A p \in Producers :
          (variant = "bounded" /\ ppc[p] \in {"p_write", "p_fill"}) => ~nodes[head].filled

\* a woken consumer is about to test the predicate again and the node at tail is not
\* filled (its wakeup was spurious, or another consumer took the item)
C16_Witness ==
    \E c \in Consumers :
        /\ cpc[c] = "c_relock"
        /\ ~NotEmpty
        /\ Len(removed) >= 1

(***************************************************************************)
(* Scenario A: a bounded buffer, one producer pushing 10, 20, ... (one item more than    *)
(* the buffer holds: 10, 20, 30 for a capacity of 2) and one consumer taking them all.    *)
(* With a single producer the spin loop of the ticket lock never turns.                   *)
(***************************************************************************)
ScenarioItems ==
    [p \in Producers |-> IF p = 1 THEN [i \in 1..(BUFFER_SIZE + 1) |-> 10 * i] ELSE <<>>]

ScenarioCalls == [c \in Consumers |-> IF c = 1 THEN BUFFER_SIZE + 1 ELSE 0]

InitScenarioA == Start(ScenarioItems, ScenarioCalls, 0) /\ variant = "bounded"

NextScenarioA ==
    \/ \E p \in Producers : ProducerStep(p) \/ ProduceSpuriousWake(p)
    \/ \E c \in Consumers : ConsumerStep(c) \/ ConsumeSpuriousWake(c)

SpecScenarioA == InitScenarioA /\ [][NextScenarioA]_vars

(***************************************************************************)
(* C17                                                                     *)
(***************************************************************************)
\* C17 as stated: in Scenario A the consumed sequence is 10, 20, 30, and the produce call
\* of the last item does not get past the wait for a free slot before the first consume
\* call has returned.
C17_BlocksUntilConsumeReturns ==
    /\ IsPrefix(returned, items[1])
    /\ AllFinished => returned = items[1]
    /\ Len(written) + Cardinality({p \in Producers : PassedWait(p)}) > BUFFER_SIZE =>
          Len(returned) >= 1

\* C17 as amended: in Scenario A the consumed sequence is 10, 20, 30, and the produce call
\* of the last item does not get past the wait for a free slot before the first consume
\* call has cleared its slot (tail->filled = false); that call need not have returned.
C17_BlocksUntilSlotCleared ==
    /\ IsPrefix(returned, items[1])
    /\ AllFinished => returned = items[1]
    /\ Len(written) + Cardinality({p \in Producers : PassedWait(p)}) > BUFFER_SIZE =>
          Len(removed) >= 1

\* the last item is in the buffer while the first consume call, which made room for it,
\* has not yet returned
C17_Witness ==
    /\ Len(written) = BUFFER_SIZE + 1
    /\ written[BUFFER_SIZE + 1] = 10 * (BUFFER_SIZE + 1)
    /\ Len(removed) = 1
    /\ Len(returned) = 0

(***************************************************************************)
(* C18                                                                     *)
(***************************************************************************)
\* p has to wait: for the producer lock, or for a free slot / c has to wait for an item
ProducerMustWait(p) == (ppc[p] = "p_spin" /\ ~TicketTurn(p)) \/ ppc[p] = "p_blocked"
ConsumerMustWait(c) == cpc[c] = "c_blocked"

\* C18: no thread waits by spinning: a thread that has to wait is suspended, it has no
\* step of its own to take until another thread lets it go on.
C18_WaitersAreSuspended ==
    /\ \A p \in Producers : ProducerMustWait(p) => ~ENABLED (ProducerStep(p) \/ TicketSpin(p))
    /\ \A c \in Consumers : ConsumerMustWait(c) => ~ENABLED ConsumerStep(c)

(***************************************************************************)
(* A ticket lock that has been in use for a long time: INT_MAX - 1 pairs of lock() and   *)
(* unlock() have been made on it before the threads of the model start (one consumer     *)
(* thread is started).                                                                    *)
(***************************************************************************)
InitLongRun == Start(DriverItems, ConsumersStarted(1), INT_MAX - 1)

SpecLongRun == InitLongRun /\ [][Next]_vars

(***************************************************************************)
(* C19                                                                     *)
(***************************************************************************)
\* p has taken a ticket in lock() and has not yet called unlock()
InLock(p) == ppc[p] = "p_spin" \/ HoldsTicket(p)

\* C19 as stated: over any number of lock() calls, each ticket issued is strictly greater
\* than the tickets issued before it (so none is issued twice).
C19_TicketsIncrease ==
    [][\A p \in Producers :
          (ppc[p] = "p_ready" /\ ppc'[p] = "p_spin") =>
              /\ my_ticket'[p] = next_ticket
              /\ next_ticket' > next_ticket]_vars

\* C19 as amended: each lock() call gets the value of next_ticket, and the following call
\* gets a ticket greater by one, until the counter holds INT_MAX; the call after that one
\* gets INT_MIN, because fetch_add on an int counter wraps.  No two calls that are waiting
\* or inside at the same time hold the same ticket.
C19_TicketsIncreaseUntilWrap ==
    /\ [](\A p, q \in Producers : (p # q /\ InLock(p) /\ InLock(q)) => my_ticket[p] # my_ticket[q])
    /\ [][\A p \in Producers :
             (ppc[p] = "p_ready" /\ ppc'[p] = "p_spin") =>
                 /\ my_ticket'[p] = next_ticket
                 /\ IF next_ticket = INT_MAX
                    THEN next_ticket' = INT_MIN
                    ELSE next_ticket' = next_ticket + 1]_vars

\* the call that got the ticket INT_MIN, issued after INT_MAX, is inside the lock
C19_Witness ==
    \E p \in Producers :
        /\ HoldsTicket(p)
        /\ my_ticket[p] = INT_MIN
        /\ now_serving = INT_MIN
        /\ next_ticket > INT_MIN

(***************************************************************************)
(* C20                                                                     *)
(***************************************************************************)
\* C20: items are written into the buffer in the order in which their produce calls
\* obtained their tickets.  The lock starts with ticket 0, so the call that writes when k
\* items have been written holds ticket k, and every other call that is waiting or
\* inside holds a later one; this also when the ticket holder has been blocked on the
\* full bounded buffer.
C20_WriteOrderIsTicketOrder ==
    [][\A p \in Producers :
          (ppc[p] = "p_fill" /\ ppc'[p] = "p_log") =>
              /\ written' = Append(written, pitem[p])
              /\ my_ticket[p] = Len(written)
              /\ \A q \in Producers \ {p} : InLock(q) => my_ticket[q] > my_ticket[p]]_vars

\* the ticket holder is suspended on cv_not_full, its item not yet written,
\* while the other producer waits with the next ticket
C20_Witness ==
    \E p, q \in Producers :
        /\ variant = "bounded"
        /\ p \in cv_not_full
        /\ my_ticket[p] = Len(written)
        /\ ppc[q] = "p_spin"
        /\ my_ticket[q] = my_ticket[p] + 1
        /\ Len(removed) > 0

(***************************************************************************)
(* C21                                                                     *)
(***************************************************************************)
\* C21: in both buffers the reads of tail->data, taken in the order in which the
\* consumers make them, deliver the items in the order the producers wrote them: the
\* read that is made when k items have been removed is made by the owner of
\* mutex_consumer and delivers the item that was written as number k + 1.
C21_ReadsFollowWrites ==
    [][\A c \in Consumers :
          (cpc[c] = "c_read" /\ cpc'[c] = "c_log") =>
              /\ mutex_consumer = Cons(c)
              /\ Len(removed) < Len(written)
              /\ citem'[c] = written[Len(removed) + 1]
              /\ removed' = Append(removed, written[Len(removed) + 1])]_vars

\* two consumers hold the first two items, which different producers wrote, the one of
\* the second producer first
C21_Witness ==
    \E c, d \in Consumers :
        /\ c # d
        /\ HoldsItem(c) /\ HoldsItem(d)
        /\ Len(removed) = 2
        /\ citem[c] = written[1] /\ citem[c] = ItemOf(2, 0)
        /\ citem[d] = written[2] /\ citem[d] = ItemOf(1, 0)

(***************************************************************************)
(* C22                                                                     *)
(***************************************************************************)
\* C22: within each role the log keeps the order of the buffer.  The log file is only
\* ever appended to, so its order is the order of the appends: the produce record that is
\* appended when the log holds k produce records is that of the item written as number
\* k + 1, which is the item written last, and the consume record that is appended when
\* the log holds k consume records is that of the item removed as number k + 1, which is
\* the item removed last.
C22_LogKeepsBufferOrder ==
    [][/\ \A p \in Producers :
             (ppc[p] = "p_log" /\ ppc'[p] = "p_logged") =>
                 /\ Cardinality(Records("produced")) + 1 = Len(written)
                 /\ log' = log (+) SetToBag({Record("produced", p, written[Len(written)])})
       /\ \A c \in Consumers :
             (cpc[c] = "c_log" /\ cpc'[c] = "c_logged") =>
                 /\ Cardinality(Records("consumed")) + 1 = Len(removed)
                 /\ log' = log (+) SetToBag({Record("consumed", c, removed[Len(removed)])})]_vars

\* the log holds the records of all produce calls, those of the two producers
\* alternating, and of the consume calls of both consumers
C22_Witness ==
    /\ Cardinality(Records("produced")) = ITEMS_PER_PRODUCER * Cardinality(Producers)
    /\ written[1] = ItemOf(2, 0)
    /\ written[2] = ItemOf(1, 0)
    /\ written[3] = ItemOf(2, 1)
    /\ Cardinality(Records("consumed")) = ITEMS_PER_CONSUMER * Cardinality(Consumers)
    /\ \A c \in Consumers : \E r \in Records("consumed") : r.id = c

(***************************************************************************)
(* C23                                                                     *)
(***************************************************************************)
\* the nodes reached from n by following Node::next, n first, at most k of them
RECURSIVE ChainFrom(_, _)
ChainFrom(n, k) ==
    IF k = 0 \/ n \notin DOMAIN nodes
    THEN <<>>
    ELSE <<n>> \o ChainFrom(nodes[n].next, k - 1)

\* the chain reachable from tail
Chain == ChainFrom(tail, LiveNodes)

\* no produce call is between ticket_lock_producer.lock() and unlock()
ProducersAtRest == \A p \in Producers : ~HoldsTicket(p)

\* C23 as stated: in the unbounded buffer, whenever no produce call is between acquiring
\* and releasing the ticket lock, the chain reachable from tail ends in exactly one
\* unfilled node with a null next pointer, head points to that node, and every other
\* node of the chain is filled.
C23_OneUnfilledNode ==
    (variant = "unbounded" /\ ProducersAtRest) =>
        /\ Len(Chain) >= 1
        /\ Chain[Len(Chain)] = head
        /\ nodes[head].next = NULL
        /\ ~nodes[head].filled
        /\ \A i \in 1..(Len(Chain) - 1) : nodes[Chain[i]].filled

\* C23 as amended: in the unbounded buffer, whenever no produce call is between acquiring
\* and releasing the ticket lock, the chain reachable from tail ends in a node with a
\* null next pointer that is unfilled, head points to that node, and every other node of
\* the chain is filled, except the node at tail while a consume call has taken its item
\* (tail->filled = false) and not yet unlinked it (tail = tail->next).
C23_OneTrailingSentinel ==
    []((variant = "unbounded" /\ ProducersAtRest) =>
           /\ Len(Chain) >= 1
           /\ Chain[Len(Chain)] = head
           /\ nodes[head].next = NULL
           /\ ~nodes[head].filled
           /\ \A i \in 1..(Len(Chain) - 1) :
                 nodes[Chain[i]].filled <=> ~(i = 1 /\ \E c \in Consumers : BeforeDelete(c)))

\* producers at rest, a chain of an emptied node still at tail, two filled nodes and the
\* unfilled node at head
C23_Witness ==
    /\ variant = "unbounded"
    /\ ProducersAtRest
    /\ \E c \in Consumers : BeforeDelete(c)
    /\ Len(Chain) = 4
    /\ ~nodes[Chain[1]].filled
    /\ nodes[Chain[2]].filled /\ nodes[Chain[3]].filled
    /\ Chain[4] = head

(***************************************************************************)
(* C24                                                                     *)
(***************************************************************************)
\* C24: every bounded produce call takes its steps in this order: ticket and turn, lock
\* mutex_producer, wait until the node at head is unfilled, write the value, set filled
\* and advance head, unlock mutex_producer, notify cv_not_empty, release the ticket lock.
\* So mutex_producer is taken only by the call whose ticket is served; the node is
\* written and marked only under mutex_producer, with the ticket, when it is unfilled;
\* mutex_producer is given up for good only when the item is in the buffer; the notify
\* comes after that unlock and leaves the ticket lock held; the ticket lock is released
\* only after the notify.  And while a call waits for a free slot its ticket stays the one
\* served and no other producer is inside the ticket lock.
C24_BoundedProduceOrder ==
    /\ [](variant = "bounded" =>
            \A p \in Producers :
                ppc[p] \in {"p_wait", "p_blocked", "p_relock"} =>
                    /\ now_serving = my_ticket[p]
                    /\ \A q \in Producers \ {p} : ppc[q] \in {"p_ready", "p_spin", "p_stat", "p_return"})
    /\ [][variant = "bounded" =>
            /\ (\A p \in Producers : ppc[p] = ppc'[p] \/ ppc[p] \notin {"p_write", "p_fill"}) =>
                   /\ \A n \in DOMAIN nodes : nodes'[n].filled => nodes[n].filled
                   /\ \A n \in DOMAIN nodes : nodes'[n].data = nodes[n].data
                   /\ head' = head
            /\ \A p \in Producers :
                /\ (mutex_producer # Prod(p) /\ mutex_producer' = Prod(p)) =>
                       /\ ppc[p] \in {"p_lock", "p_relock"}
                       /\ now_serving = my_ticket[p]
                /\ (ppc[p] \in {"p_write", "p_fill"} /\ ppc'[p] # ppc[p]) =>
                       /\ mutex_producer = Prod(p) /\ mutex_producer' = Prod(p)
                       /\ now_serving = my_ticket[p]
                       /\ ~nodes[head].filled
                /\ (ppc[p] = "p_fill" /\ ppc'[p] # "p_fill") =>
                       /\ nodes[head].data = pitem[p]
                       /\ nodes'[head].filled
                       /\ head' = nodes[head].next
                /\ (mutex_producer = Prod(p) /\ mutex_producer' # Prod(p) /\ ppc'[p] # "p_blocked") =>
                       /\ Len(written) > 0 /\ written[Len(written)] = pitem[p]
                       /\ ppc'[p] = "p_notify"
                       /\ now_serving' = my_ticket[p]
                /\ (ppc[p] = "p_notify" /\ ppc'[p] # "p_notify") =>
                       /\ mutex_producer # Prod(p)
                       /\ cv_not_empty' \in NotifyOne(cv_not_empty)
                       /\ now_serving = my_ticket[p] /\ now_serving' = my_ticket[p]
            /\ now_serving' # now_serving =>
                   \E p \in Producers :
                       /\ ppc[p] = "p_unlock" /\ ppc'[p] = "p_stat"
                       /\ now_serving = my_ticket[p]
                       /\ mutex_producer # Prod(p)]_vars

\* the buffer is full; the producer whose ticket is served is suspended on cv_not_full,
\* having released mutex_producer and not the ticket lock, and the other producer spins
\* in lock() with the next ticket
C24_Witness ==
    \E p, q \in Producers :
        /\ variant = "bounded"
        /\ Backlog = BUFFER_SIZE
        /\ ppc[p] = "p_blocked" /\ p \in cv_not_full
        /\ mutex_producer = NoOwner
        /\ now_serving = my_ticket[p]
        /\ ppc[q] = "p_spin" /\ my_ticket[q] = next_ticket - 1 /\ my_ticket[q] # my_ticket[p]

(***************************************************************************)
(* C25                                                                     *)
(***************************************************************************)
\* C25: every unbounded produce call links the new empty node as next of the node at
\* head before it sets that node's filled flag, sets the flag before it releases the
\* ticket lock, and notifies cv_not_empty only after it has released the ticket lock.
\* So the step that sets the flag finds the node at head linked to a live, unfilled node
\* without successor and is taken with the ticket; the step that releases the ticket
\* lock is taken when the item is in the buffer; and the notify is made when
\* now_serving has moved past the ticket of the call.
C25_UnboundedProduceOrder ==
    [][variant = "unbounded" =>
          \A p \in Producers :
              /\ (ppc[p] = "p_fill" /\ ppc'[p] # "p_fill") =>
                     /\ ~nodes[head].filled /\ nodes'[head].filled
                     /\ nodes[head].next \in DOMAIN nodes
                     /\ nodes[nodes[head].next] = Node
                     /\ head' = nodes[head].next
                     /\ now_serving = my_ticket[p] /\ now_serving' = now_serving
              /\ (\A q \in Producers : ppc[q] # "p_fill" \/ ppc'[q] = "p_fill") =>
                     \A n \in DOMAIN nodes \cap DOMAIN nodes' :
                         nodes'[n].filled => nodes[n].filled
              /\ (now_serving = my_ticket[p] /\ ppc[p] = "p_logged" /\ now_serving' # now_serving) =>
                     /\ Len(written) > 0 /\ written[Len(written)] = pitem[p]
                     /\ \/ Len(removed) = Len(written)
                        \/ \E n \in DOMAIN nodes : nodes[n].filled /\ nodes[n].data = pitem[p]
                     /\ cv_not_empty' = cv_not_empty
              /\ (ppc[p] = "p_notify" /\ ppc'[p] # "p_notify") =>
                     /\ now_serving > my_ticket[p]
                     /\ cv_not_empty' \in NotifyOne(cv_not_empty)
              /\ now_serving' # now_serving => \E q \in Producers : ppc[q] = "p_logged"]_vars

\* a producer has released the ticket lock and not yet notified: its item is at tail, a
\* consumer is still suspended on cv_not_empty and the other producer is already inside
\* the ticket lock
C25_Witness ==
    \E p, q \in Producers, c \in Consumers :
        /\ variant = "unbounded"
        /\ ppc[p] = "p_notify"
        /\ NotEmpty /\ nodes[tail].data = pitem[p]
        /\ c \in cv_not_empty
        /\ HoldsTicket(q) /\ my_ticket[q] = my_ticket[p] + 1

(***************************************************************************)
(* C26                                                                     *)
(***************************************************************************)
\* p / c has asked for its statistics mutex and not yet released it
InProduceStat(p) == ppc[p] = "p_stat" \/ prod_stat_mutex = Prod(p)
InConsumeStat(c) == cpc[c] = "c_stat" \/ cons_stat_mutex = Cons(c)

\* C26: the statistics are kept apart from the data path.  A producer that waits for or
\* holds prod_stat_mutex has released the ticket lock (now_serving has moved past its
\* ticket) and does not hold mutex_producer; a consumer that waits for or holds
\* cons_stat_mutex does not hold mutex_consumer; prod_stat_mutex is only ever owned by a
\* producer and cons_stat_mutex by a consumer.
C26_StatsIsolated ==
    [](/\ \A p \in Producers :
             InProduceStat(p) =>
                 /\ now_serving > my_ticket[p]
                 /\ mutex_producer # Prod(p)
                 /\ ~HoldsTicket(p)
       /\ \A c \in Consumers : InConsumeStat(c) => mutex_consumer # Cons(c)
       /\ prod_stat_mutex \in {NoOwner} \cup {Prod(p) : p \in Producers}
       /\ cons_stat_mutex \in {NoOwner} \cup {Cons(c) : c \in Consumers})

\* one producer holds prod_stat_mutex and the other one waits for it, one consumer holds
\* cons_stat_mutex, and the data path is free: the other consumer has taken
\* mutex_consumer
C26_Witness ==
    \E p, q \in Producers, c, d \in Consumers :
        /\ prod_stat_mutex = Prod(p)
        /\ ppc[q] = "p_stat"
        /\ cons_stat_mutex = Cons(c)
        /\ mutex_consumer = Cons(d)

(***************************************************************************)
(* C27                                                                     *)
(***************************************************************************)
\* the threads suspended on a condition variable
Suspended ==
    {Prod(p) : p \in cv_not_full} \cup {Cons(c) : c \in cv_not_empty}

\* the lock thread t is asking for at its position (it gets it when the lock is free), or
\* "none"
AsksFor(t) ==
    IF t[1] = "producer"
    THEN CASE ppc[t[2]] = "p_spin"                        -> "ticket_lock_producer"
           [] ppc[t[2]] \in {"p_lock", "p_relock"}        -> "mutex_producer"
           [] ppc[t[2]] = "p_log"                         -> "log_mutex"
           [] ppc[t[2]] = "p_stat"                        -> "prod_stat_mutex"
           [] OTHER                                       -> "none"
    ELSE CASE cpc[t[2]] = "c_ready" /\ cleft[t[2]] > 0    -> "mutex_consumer"
           [] cpc[t[2]] = "c_relock"                      -> "mutex_consumer"
           [] cpc[t[2]] = "c_log"                         -> "log_mutex"
           [] cpc[t[2]] = "c_stat"                        -> "cons_stat_mutex"
           [] OTHER                                       -> "none"

\* C27: each role keeps to its own data locks.  mutex_consumer is never owned or asked
\* for by a producer, mutex_producer and the ticket lock never by a consumer, no thread
\* owns mutex_producer and mutex_consumer together, and a thread suspended on a condition
\* variable owns neither of them (only producers are suspended on cv_not_full and only
\* consumers on cv_not_empty).
C27_RolesKeepToTheirLocks ==
    [](/\ mutex_consumer \in {NoOwner} \cup {Cons(c) : c \in Consumers}
       /\ mutex_producer \in {NoOwner} \cup {Prod(p) : p \in Producers}
       /\ TicketOwner \in {NoOwner} \cup {Prod(p) : p \in Producers}
       /\ \A t \in Threads :
             /\ t[1] = "producer" => AsksFor(t) # "mutex_consumer"
             /\ t[1] = "consumer" => AsksFor(t) \notin {"mutex_producer", "ticket_lock_producer"}
             /\ ~(mutex_producer = t /\ mutex_consumer = t)
       /\ \A t \in Suspended : mutex_producer # t /\ mutex_consumer # t
       /\ cv_not_full \subseteq Producers
       /\ cv_not_empty \subseteq Consumers)

\* both roles are in their data path at once: a producer is suspended on cv_not_full with
\* the ticket lock, the other producer spins, one consumer owns mutex_consumer and the
\* other one waits for it
C27_Witness ==
    \E p, q \in Producers, c, d \in Consumers :
        /\ Prod(p) \in Suspended
        /\ TicketOwner = Prod(p)
        /\ ppc[q] = "p_spin"
        /\ mutex_consumer = Cons(c)
        /\ Blocker(Cons(d)) = Cons(c)

(***************************************************************************)
(* A client that calls lock() again while it holds the ticket lock.  produce never does  *)
(* this; here a producer thread may do it right after its lock() call has returned.      *)
(* The nested call is TicketLock::lock once more: it takes a ticket and spins.            *)
(***************************************************************************)
TicketRelock(p) ==
    /\ ppc[p] = (IF variant = "bounded" THEN "p_lock" ELSE "p_write")
    /\ my_ticket' = [my_ticket EXCEPT ![p] = next_ticket]
    /\ next_ticket' = TicketAfter(next_ticket)
    /\ ppc' = [ppc EXCEPT ![p] = "p_spin"]
    /\ UNCHANGED <<variant, items, log, statVars,
                   now_serving, heapVars, mutexVars, cvVars, consVars,
                   pleft, pitem, plink, histVars>>

NextReentry ==
    \/ Next
    \/ \E p \in Producers : TicketRelock(p)

SpecReentry == Init /\ [][NextReentry]_vars

\* the holder of the lock has called lock() again: tickets are outstanding, and the one
\* being served belongs to no call that is waiting or inside
Reentered ==
    /\ now_serving # next_ticket
    /\ \A q \in Producers : InLock(q) => my_ticket[q] # now_serving

(***************************************************************************)
(* C28                                                                     *)
(***************************************************************************)
\* C28: TicketLock is not reentrant.  Once the holder has called lock() again before
\* unlock(), no call of lock() returns any more: not the nested call and not the call of
\* any thread that requests the lock afterwards.  now_serving never changes again, every
\* call in the spin loop stays in it, turning (the loop yields and tests again; it
\* neither blocks nor fails), and no thread is inside the lock.
C28_NotReentrant ==
    /\ [](Reentered =>
            /\ \A p \in Producers : ~HoldsTicket(p)
            /\ \A p \in Producers : ppc[p] = "p_spin" => ENABLED TicketSpin(p))
    /\ [][Reentered =>
            /\ Reentered'
            /\ now_serving' = now_serving
            /\ \A p \in Producers : ppc[p] = "p_spin" => ppc'[p] = "p_spin"]_vars

\* the holder of ticket 0 has called lock() again and spins with ticket 1; the other
\* thread has requested the lock afterwards and spins with ticket 2
C28_Witness ==
    \E p, q \in Producers :
        /\ Reentered
        /\ now_serving = 0
        /\ ppc[p] = "p_spin" /\ my_ticket[p] = 1
        /\ ppc[q] = "p_spin" /\ my_ticket[q] = 2
        /\ pleft[p] = ITEMS_PER_PRODUCER - 1

(***************************************************************************)
(* C29                                                                     *)
(***************************************************************************)
\* C29: in the bounded buffer the ring is fixed after construction.  In every reachable
\* state the live nodes are the BUFFER_SIZE nodes the constructor made, none was
\* allocated since, every node has the successor the constructor gave it, following next
\* from any node leads through all the nodes and back to it, and head and tail point to
\* nodes of the ring.
C29_RingIsFixed ==
    [](variant = "bounded" =>
           /\ DOMAIN nodes = 1..BUFFER_SIZE
           /\ nalloc = BUFFER_SIZE
           /\ \A n \in DOMAIN nodes : nodes[n].next = Ring[n].next
           /\ \A n \in DOMAIN nodes :
                 /\ Range(ChainFrom(n, BUFFER_SIZE)) = DOMAIN nodes
                 /\ ChainFrom(n, BUFFER_SIZE + 1)[BUFFER_SIZE + 1] = n
           /\ head \in DOMAIN nodes
           /\ tail \in DOMAIN nodes)

\* the whole workload has gone through the ring: head has passed every node and come
\* round again, and tail has followed
C29_Witness ==
    /\ variant = "bounded"
    /\ Len(written) = ITEMS_PER_PRODUCER * Cardinality(Producers)
    /\ Len(written) > BUFFER_SIZE
    /\ Len(returned) = ITEMS_PER_CONSUMER * Cardinality(Consumers)
    /\ head = (Len(written) % BUFFER_SIZE) + 1
    /\ tail = (Len(removed) % BUFFER_SIZE) + 1

(***************************************************************************)
(* The driver's balanced workload under fair scheduling: the consumers together take as  *)
(* many items as the producers push (5 x 30 and 3 x 50 in main), and every thread that   *)
(* can take a step eventually takes one.  A wait need not wake spuriously.               *)
(***************************************************************************)
BalancedCalls ==
    [c \in Consumers |->
        (ITEMS_PER_PRODUCER * Cardinality(Producers)) \div Cardinality(Consumers)]

InitBalanced == Start(DriverItems, BalancedCalls, 0)

FairThreads ==
    /\ \A p \in Producers : WF_vars(ProducerStep(p))
    /\ \A c \in Consumers : WF_vars(ConsumerStep(c))

SpecBalanced == InitBalanced /\ [][Next]_vars /\ FairThreads

(***************************************************************************)
(* C30                                                                     *)
(***************************************************************************)
\* C30: with the balanced workload and fair scheduling every producer and every consumer
\* thread eventually finishes all its calls, in the bounded and in the unbounded buffer.
C30_AllThreadsFinish == <>AllFinished

(***************************************************************************)
(* C31                                                                     *)
(***************************************************************************)
\* the nodes consume has deleted
Deleted == (1..nalloc) \ DOMAIN nodes

\* the nodes a thread can still get at: through head and tail, through the local
\* new_node of a produce call, and through the next field of a live node
Reachable ==
    ({head, tail} \cup {plink[p] : p \in Producers} \cup {nodes[n].next : n \in DOMAIN nodes})
        \ {NULL}

\* C31: in the unbounded buffer no thread reads or writes a node after consume has
\* deleted it.  No pointer a thread can follow leads to a deleted node, so the node at
\* head, which produce writes, and the node at tail, which consume reads, are live.  A
\* node is deleted only by the consume call that owns mutex_consumer and has read its
\* data, and in the step that reads its next field into tail.  And once a produce call
\* has marked its node filled it leaves every node alone: the node may be deleted while
\* the call is still running.
C31_NoUseAfterDelete ==
    /\ [](variant = "unbounded" => Reachable \cap Deleted = {})
    /\ [][variant = "unbounded" =>
             /\ \A n \in DOMAIN nodes \ DOMAIN nodes' :
                   \E c \in Consumers :
                       /\ cpc[c] = "c_logged" /\ cpc'[c] # "c_logged"
                       /\ mutex_consumer = Cons(c)
                       /\ n = tail
                       /\ citem[c] = nodes[n].data
                       /\ tail' = nodes[n].next
             /\ \A p \in Producers :
                   (ppc[p] \in {"p_log", "p_logged", "p_notify", "p_stat", "p_return"}
                        /\ ppc'[p] # ppc[p]) =>
                       /\ \A n \in DOMAIN nodes \cap DOMAIN nodes' : nodes'[n] = nodes[n]
                       /\ DOMAIN nodes' \subseteq DOMAIN nodes
                       /\ plink[p] = NULL]_vars

\* a produce call has marked its node filled and is still before its logEvent call, and
\* the node is already consumed and deleted: only the node at head is left
C31_Witness ==
    \E p \in Producers :
        /\ variant = "unbounded"
        /\ ppc[p] = "p_log"
        /\ Len(written) >= 2
        /\ removed = written
        /\ DOMAIN nodes = {head}
        /\ Cardinality(Deleted) = Len(written)

(***************************************************************************)
(* C32                                                                     *)
(***************************************************************************)
\* C32: in the unbounded buffer, whenever a consumer advances tail (tail = tail->next)
\* the node at tail is not the trailing node at head and the next pointer read is that
\* of a live node, not null; so tail is never null, always points to a live node, and
\* the node at head is always on the chain that starts at tail: tail never moves past
\* it, however the steps of the producers fall in between.
C32_TailNeverNull ==
    /\ [](variant = "unbounded" =>
            /\ tail # NULL
            /\ tail \in DOMAIN nodes
            /\ \E i \in 1..Len(Chain) : Chain[i] = head)
    /\ [][(variant = "unbounded" /\ tail' # tail) =>
             /\ tail # head
             /\ nodes[tail].filled = FALSE
             /\ nodes[tail].next # NULL
             /\ nodes[tail].next \in DOMAIN nodes
             /\ tail' = nodes[tail].next]_vars

\* tail has caught up with head: a consumer has advanced tail to the trailing node while
\* a producer has written and linked that node and not yet marked it filled, and the
\* other consumer has found nothing to take
C32_Witness ==
    \E p \in Producers, c \in Consumers :
        /\ variant = "unbounded"
        /\ Len(removed) >= 1
        /\ tail = head
        /\ ppc[p] = "p_fill"
        /\ nodes[tail].next # NULL
        /\ cpc[c] \in {"c_wait", "c_blocked"}

(***************************************************************************)
(* C33                                                                     *)
(***************************************************************************)
\* the nodes from node a along next up to, not including, node b; at most k of them
RECURSIVE RingPath(_, _, _)
RingPath(a, b, k) ==
    IF a = b \/ k = 0 THEN {} ELSE {a} \cup RingPath(nodes[a].next, b, k - 1)

\* the nodes marked filled
Filled == {n \in DOMAIN nodes : nodes[n].filled}

\* no call is between its write of Node::filled and its move of head or tail.  produce
\* sets filled and assigns head in one step of the model (no other thread reads head), so
\* only consume calls are found in between.
CursorsAtRest == \A c \in Consumers : ~BeforeDelete(c)

\* C33: in the bounded buffer, whenever no produce is between setting filled and
\* advancing head and no consume is between clearing filled and advancing tail, the
\* filled nodes are exactly the nodes on the ring from tail up to, not including, head;
\* or, when head equals tail, all the nodes if that node is filled and none if it is not.
C33_FilledIsTailToHead ==
    []((variant = "bounded" /\ CursorsAtRest) =>
          IF head = tail
          THEN Filled = (IF nodes[head].filled THEN DOMAIN nodes ELSE {})
          ELSE Filled = RingPath(tail, head, BUFFER_SIZE))

\* the ring is full after head has gone round: head has met tail at a node other than
\* the first one, and every node is filled
C33_Witness ==
    /\ variant = "bounded"
    /\ CursorsAtRest
    /\ head = tail /\ head # 1
    /\ Filled = DOMAIN nodes
    /\ Len(removed) >= 1

(***************************************************************************)
(* C34                                                                     *)
(***************************************************************************)
\* the calls of lock() that have taken a ticket and not yet called unlock()
InLockCalls == {p \in Producers : InLock(p)}

\* the value of now_serving after k more calls of unlock()
RECURSIVE ServingAhead(_, _)
ServingAhead(s, k) == IF k = 0 THEN s ELSE ServingAfter(ServingAhead(s, k - 1))

\* C34 as stated: in every reachable state now_serving <= next_ticket, and
\* next_ticket - now_serving is the number of threads that wait in lock() or hold the
\* lock.
C34_TicketCount ==
    /\ now_serving <= next_ticket
    /\ next_ticket - now_serving = Cardinality(InLockCalls)

\* C34 as amended: in every reachable state next_ticket is now_serving advanced once,
\* with the wrap of the int counter from INT_MAX to INT_MIN, for every thread that waits
\* in lock() or holds the lock, and these threads hold exactly the tickets from
\* now_serving on.  So now_serving <= next_ticket and next_ticket - now_serving is the
\* number of these threads as long as next_ticket has not wrapped ahead of now_serving;
\* when it has, next_ticket is negative and now_serving is not.
C34_TicketCountModulo ==
    [](/\ next_ticket = ServingAhead(now_serving, Cardinality(InLockCalls))
       /\ {my_ticket[p] : p \in InLockCalls} =
             {ServingAhead(now_serving, k) : k \in 0..(Cardinality(InLockCalls) - 1)}
       /\ now_serving <= next_ticket => next_ticket - now_serving = Cardinality(InLockCalls)
       /\ now_serving > next_ticket => next_ticket < 0 /\ now_serving > 0)

\* the holder has ticket INT_MAX and the other thread waits with ticket INT_MIN:
\* next_ticket has wrapped and is below now_serving
C34_Witness ==
    \E p, q \in Producers :
        /\ now_serving = INT_MAX
        /\ HoldsTicket(p) /\ my_ticket[p] = INT_MAX
        /\ ppc[q] = "p_spin" /\ my_ticket[q] = INT_MIN
        /\ next_ticket = INT_MIN + 1

(***************************************************************************)
(* C35                                                                     *)
(***************************************************************************)
\* C35: in both buffers produce never writes tail and consume never writes head.  A step
\* that changes head is taken by a produce call whose ticket is the one served, leaves
\* tail alone and moves no consumer; a step that changes tail is taken by the consume
\* call that owns mutex_consumer, leaves head alone and moves no producer.
C35_HeadByProduceTailByConsume ==
    [][/\ head' # head =>
             /\ \E p \in Producers :
                   /\ ppc[p] = "p_fill" /\ ppc'[p] = "p_log"
                   /\ now_serving = my_ticket[p]
                   /\ \A q \in Producers \ {p} : ppc'[q] = ppc[q] /\ ~HoldsTicket(q)
             /\ tail' = tail
             /\ cpc' = cpc
       /\ tail' # tail =>
             /\ \E c \in Consumers :
                   /\ cpc[c] = "c_logged" /\ cpc'[c] # "c_logged"
                   /\ mutex_consumer = Cons(c)
                   /\ \A d \in Consumers \ {c} : cpc'[d] = cpc[d]
             /\ head' = head
             /\ ppc' = ppc]_vars

\* a produce call is about to move head and a consume call is about to move tail at the
\* same time, at different nodes, in a buffer both pointers have moved in before
C35_Witness ==
    \E p \in Producers, c \in Consumers :
        /\ ppc[p] = "p_fill"
        /\ cpc[c] = "c_logged"
        /\ head # tail
        /\ Len(written) >= 2
        /\ Len(removed) >= 2

====
